---- MODULE Spec2Model ----
(***************************************************************************)
(* Sparse triangular solves of sprs (src/sparse/linalg/trisolve.rs).       *)
(*                                                                         *)
(* A compressed matrix is a sequence of N outer vectors (outer index k is  *)
(* element k+1); an outer vector is a sequence of entries <<ind, val>>     *)
(* with pairwise distinct inner indices.  `storage` tells whether the      *)
(* outer vectors are rows ("csr") or columns ("csc").  Dense vectors are   *)
(* functions over 0..N-1.  The element type is modelled by the integers    *)
(* with Rust's truncating division.                                        *)
(***************************************************************************)
EXTENDS Integers, Sequences, FiniteSets, TLC

\* mat, storage : the matrix argument and its orientation
\* fn           : the entry point that was called ("none" before the call)
\* out          : the in/out vector and the Result of a dense solver, with
\*                the right-hand side b it was called on
\* srhs, dstack, visited, x_workspace : the arguments of
\*                lsolve_csc_sparse_rhs
\* pc, ri, it   : its control position, the position of the loop over the
\*                roots and of the loop over the finished indices
\* res          : its Result ("panic" when an assertion of the stack failed)
\* calls        : how often lspsolve_csc_process_col was called per column
VARIABLES mat, storage, srhs, fn, out, dstack, visited, x_workspace,
          pc, ri, it, res, calls

vars == <<mat, storage, srhs, fn, out, dstack, visited, x_workspace,
          pc, ri, it, res, calls>>

(* ------------------------------ bounds --------------------------------- *)

\* dimension n of the square systems
N == 3
\* largest number of stored off-diagonal entries of a generated matrix
MaxOff == 2
\* largest number of stored sub-diagonal entries of a generated lower matrix
MaxLower == 3
\* largest number of missing or zero pivots of a generated matrix
MaxSingular == 1
\* largest number of stored entries of a generated sparse right-hand side
MaxRhs == 2

Idx == 0 .. (N - 1)

\* stored values of diagonal entries, off-diagonal entries, right-hand side
\* entries, and the stale content of the workspace on entry
DiagVals == {0, 2}
OffVals == {3}
RhsVals == {4}
StaleVals == {7}

(* --------------------------- element type ------------------------------ *)

Abs(a) == IF a < 0 THEN -a ELSE a

\* N::div for a primitive integer: the quotient truncated towards zero
Div(a, b) ==
    IF (a < 0) = (b < 0) THEN Abs(a) \div Abs(b) ELSE -(Abs(a) \div Abs(b))

(* ------------------------- container views ----------------------------- *)

\* CsVecView::get: the values stored at inner index i (none or one)
get(vec, i) == {vec[k][2] : k \in {k \in DOMAIN vec : vec[k][1] = i}}

\* the value of an Option that is Some
unwrap(opt) == CHOOSE v \in opt : TRUE

\* CsVecView::scatter: write the stored values into a dense buffer
RECURSIVE scatter(_, _, _)
scatter(vec, k, buf) ==
    IF k > Len(vec) THEN buf
    ELSE scatter(vec, k + 1, [buf EXCEPT ![vec[k][1]] = vec[k][2]])

\* the entry at (outer o, inner i) of the logical matrix, 0 when not stored
At(m, o, i) == IF get(m[o + 1], i) = {} THEN 0 ELSE unwrap(get(m[o + 1], i))

RECURSIVE SortedSeq(_)
SortedSeq(S) ==
    IF S = {} THEN <<>>
    ELSE LET lo == CHOOSE e \in S : \A f \in S : e[1] <= f[1]
         IN  <<lo>> \o SortedSeq(S \ {lo})

\* the same logical matrix in the other storage orientation
to_other(m) ==
    [o \in 1 .. N |->
        SortedSeq({<<k - 1, unwrap(get(m[k], o - 1))>> :
                     k \in {k \in 1 .. N : get(m[k], o - 1) # {}}})]

(* --------------------------- dense solvers ----------------------------- *)

Ok(x) == [st |-> "Ok", x |-> x]
Singular(x) == [st |-> "SingularMatrix", x |-> x]
Panic(x) == [st |-> "panic", x |-> x]

\* lsolve_csr_row without the skip of the entries above the diagonal
RECURSIVE lsolve_csr_row_no_skip(_, _, _, _, _)
lsolve_csr_row_no_skip(row, k, row_ind, rhs, acc) ==
    IF k > Len(row) THEN acc
    ELSE LET col_ind == row[k][1]
             val == row[k][2]
         IN  IF col_ind = row_ind
             THEN lsolve_csr_row_no_skip(row, k + 1, row_ind, rhs, <<val, acc[2]>>)
             ELSE lsolve_csr_row_no_skip(row, k + 1, row_ind, rhs,
                                         <<acc[1], acc[2] - val * rhs[col_ind]>>)

\* lines 51-60: the scan of one row of lsolve_csr_dense_rhs; acc = <<diag_val, x>>
RECURSIVE lsolve_csr_row(_, _, _, _, _)
lsolve_csr_row(row, k, row_ind, rhs, acc) ==
    IF k > Len(row) THEN acc
    ELSE LET col_ind == row[k][1]
             val == row[k][2]
         IN  IF col_ind = row_ind
             THEN lsolve_csr_row(row, k + 1, row_ind, rhs, <<val, acc[2]>>)
             ELSE IF col_ind > row_ind
             THEN lsolve_csr_row(row, k + 1, row_ind, rhs, acc)
             ELSE lsolve_csr_row(row, k + 1, row_ind, rhs,
                                 <<acc[1], acc[2] - val * rhs[col_ind]>>)

RECURSIVE lsolve_csr_loop(_, _, _)
lsolve_csr_loop(m, row_ind, rhs) ==
    IF row_ind = N THEN Ok(rhs)
    ELSE LET acc == lsolve_csr_row(m[row_ind + 1], 1, row_ind, rhs,
                                   <<0, rhs[row_ind]>>)
         IN  IF acc[1] = 0 THEN Singular(rhs)
             ELSE lsolve_csr_loop(m, row_ind + 1,
                                  [rhs EXCEPT ![row_ind] = Div(acc[2], acc[1])])

lsolve_csr_dense_rhs(m, st, rhs) ==
    IF st # "csr" THEN Panic(rhs) ELSE lsolve_csr_loop(m, 0, rhs)

\* process_col_update skipping only the rows above the pivot (< for <=)
RECURSIVE process_col_update_diag(_, _, _, _, _)
process_col_update_diag(col, k, col_ind, x, rhs) ==
    IF k > Len(col) THEN rhs
    ELSE LET row_ind == col[k][1]
             val == col[k][2]
         IN  IF row_ind < col_ind
             THEN process_col_update_diag(col, k + 1, col_ind, x, rhs)
             ELSE process_col_update_diag(col, k + 1, col_ind, x,
                      [rhs EXCEPT ![row_ind] = rhs[row_ind] - val * x])

\* lines 119-125: the propagation loop of lspsolve_csc_process_col
RECURSIVE process_col_update(_, _, _, _, _)
process_col_update(col, k, col_ind, x, rhs) ==
    IF k > Len(col) THEN rhs
    ELSE LET row_ind == col[k][1]
             val == col[k][2]
         IN  IF row_ind <= col_ind
             THEN process_col_update(col, k + 1, col_ind, x, rhs)
             ELSE process_col_update(col, k + 1, col_ind, x,
                      [rhs EXCEPT ![row_ind] = rhs[row_ind] - val * x])

\* lspsolve_csc_process_col taking a column without diagonal entry as done
process_col_missing_ok(col, col_ind, rhs) ==
    IF get(col, col_ind) = {} THEN Ok(rhs)
    ELSE LET diag_val == unwrap(get(col, col_ind))
         IN  IF diag_val = 0 THEN Singular(rhs)
             ELSE LET x == Div(rhs[col_ind], diag_val)
                  IN  Ok(process_col_update(col, 1, col_ind, x,
                                            [rhs EXCEPT ![col_ind] = x]))

\* lines 105-130
lspsolve_csc_process_col(col, col_ind, rhs) ==
    IF get(col, col_ind) = {} THEN Singular(rhs)
    ELSE LET diag_val == unwrap(get(col, col_ind))
         IN  IF diag_val = 0 THEN Singular(rhs)
             ELSE LET x == Div(rhs[col_ind], diag_val)
                  IN  Ok(process_col_update(col, 1, col_ind, x,
                                            [rhs EXCEPT ![col_ind] = x]))

RECURSIVE lsolve_csc_loop(_, _, _)
lsolve_csc_loop(m, col_ind, rhs) ==
    IF col_ind = N THEN Ok(rhs)
    ELSE LET r == lspsolve_csc_process_col(m[col_ind + 1], col_ind, rhs)
         IN  IF r.st # "Ok" THEN r ELSE lsolve_csc_loop(m, col_ind + 1, r.x)

lsolve_csc_dense_rhs(m, st, rhs) ==
    IF st # "csc" THEN Panic(rhs) ELSE lsolve_csc_loop(m, 0, rhs)

\* lines 169-175: the propagation loop of usolve_csc_dense_rhs
RECURSIVE usolve_csc_update(_, _, _, _, _)
usolve_csc_update(col, k, col_ind, x, rhs) ==
    IF k > Len(col) THEN rhs
    ELSE LET row_ind == col[k][1]
             val == col[k][2]
         IN  IF row_ind >= col_ind
             THEN usolve_csc_update(col, k + 1, col_ind, x, rhs)
             ELSE usolve_csc_update(col, k + 1, col_ind, x,
                      [rhs EXCEPT ![row_ind] = rhs[row_ind] - val * x])

\* columns col_ind, col_ind-1, .., 0 (the reversed enumeration)
RECURSIVE usolve_csc_loop(_, _, _)
usolve_csc_loop(m, col_ind, rhs) ==
    IF col_ind < 0 THEN Ok(rhs)
    ELSE LET col == m[col_ind + 1]
         IN  IF get(col, col_ind) = {} THEN Singular(rhs)
             ELSE LET diag_val == unwrap(get(col, col_ind))
                  IN  IF diag_val = 0 THEN Singular(rhs)
                      ELSE LET x == Div(rhs[col_ind], diag_val)
                           IN  usolve_csc_loop(m, col_ind - 1,
                                   usolve_csc_update(col, 1, col_ind, x,
                                       [rhs EXCEPT ![col_ind] = x]))

usolve_csc_dense_rhs(m, st, rhs) ==
    IF st # "csc" THEN Panic(rhs) ELSE usolve_csc_loop(m, N - 1, rhs)

\* usolve_csr_row adding the solved terms instead of subtracting them
RECURSIVE usolve_csr_row_plus(_, _, _, _, _)
usolve_csr_row_plus(row, k, row_ind, rhs, acc) ==
    IF k > Len(row) THEN acc
    ELSE LET col_ind == row[k][1]
             val == row[k][2]
         IN  IF col_ind = row_ind
             THEN usolve_csr_row_plus(row, k + 1, row_ind, rhs, <<val, acc[2]>>)
             ELSE IF col_ind < row_ind
             THEN usolve_csr_row_plus(row, k + 1, row_ind, rhs, acc)
             ELSE usolve_csr_row_plus(row, k + 1, row_ind, rhs,
                                      <<acc[1], acc[2] + val * rhs[col_ind]>>)

\* lines 211-220: the scan of one row of usolve_csr_dense_rhs; acc = <<diag_val, x>>
RECURSIVE usolve_csr_row(_, _, _, _, _)
usolve_csr_row(row, k, row_ind, rhs, acc) ==
    IF k > Len(row) THEN acc
    ELSE LET col_ind == row[k][1]
             val == row[k][2]
         IN  IF col_ind = row_ind
             THEN usolve_csr_row(row, k + 1, row_ind, rhs, <<val, acc[2]>>)
             ELSE IF col_ind < row_ind
             THEN usolve_csr_row(row, k + 1, row_ind, rhs, acc)
             ELSE usolve_csr_row(row, k + 1, row_ind, rhs,
                                 <<acc[1], acc[2] - val * rhs[col_ind]>>)

RECURSIVE usolve_csr_loop(_, _, _)
usolve_csr_loop(m, row_ind, rhs) ==
    IF row_ind < 0 THEN Ok(rhs)
    ELSE LET acc == usolve_csr_row(m[row_ind + 1], 1, row_ind, rhs,
                                   <<0, rhs[row_ind]>>)
         IN  IF acc[1] = 0 THEN Singular(rhs)
             ELSE usolve_csr_loop(m, row_ind - 1,
                                  [rhs EXCEPT ![row_ind] = Div(acc[2], acc[1])])

usolve_csr_dense_rhs(m, st, rhs) ==
    IF st # "csr" THEN Panic(rhs) ELSE usolve_csr_loop(m, N - 1, rhs)

(* ------------------------------ DStack --------------------------------- *)

\* DStack::with_capacity(2 * n), as the callers of the sparse solve build it
Cap == 2 * N

\* left: the pending side, top last; right: the finished side in push order;
\* overflow: a push found the two sides meeting (its assertion failed)
EmptyStack == [left |-> <<>>, right |-> <<>>, overflow |-> FALSE]

Full(ds) == Len(ds.left) + Len(ds.right) >= Cap

push_left(ds, v) ==
    IF ds.overflow THEN ds
    ELSE IF Full(ds) THEN [ds EXCEPT !.overflow = TRUE]
    ELSE [ds EXCEPT !.left = Append(@, v)]

pop_left(ds) == [ds EXCEPT !.left = SubSeq(@, 1, Len(@) - 1)]

push_right(ds, v) ==
    IF ds.overflow THEN ds
    ELSE IF Full(ds) THEN [ds EXCEPT !.overflow = TRUE]
    ELSE [ds EXCEPT !.right = Append(@, v)]

\* iter_right().map(extract_stack_val): the finished indices from the head of
\* the right stack (the entry pushed last) to its bottom
iter_right(ds) == [k \in 1 .. Len(ds.right) |-> ds.right[Len(ds.right) + 1 - k][2]]

(* ------------------------- lsolve_csc_sparse_rhs ----------------------- *)

\* push_children stopping one entry early
RECURSIVE push_children_skip_last(_, _, _)
push_children_skip_last(column, k, ds) ==
    IF k >= Len(column) THEN ds
    ELSE push_children_skip_last(column, k + 1,
                                 push_left(ds, <<"Enter", column[k][1]>>))

\* lines 294-296: push Enter(child_ind) for every entry of the column
RECURSIVE push_children(_, _, _)
push_children(column, k, ds) ==
    IF k > Len(column) THEN ds
    ELSE push_children(column, k + 1, push_left(ds, <<"Enter", column[k][1]>>))

\* line 291 left out: the index is not marked
mark_nothing(vis, ind) == vis

\* line 291: visited[ind] = true
mark(vis, ind) == [vis EXCEPT ![ind] = TRUE]

\* enter pushing the Exit marker after the children instead of before them
enter_exit_last(m, ind, ds) ==
    push_left(push_children(m[ind + 1], 1, ds), <<"Exit", ind>>)

\* lines 292-299: the Enter arm on an index not yet visited
enter(m, ind, ds) ==
    push_children(m[ind + 1], 1, push_left(ds, <<"Exit", ind>>))

\* the Exit arm dropping the index instead of moving it to the finished side
exit_dropped(ind, ds) == ds

\* lines 301-303: the Exit arm
exit(ind, ds) == push_right(ds, <<"Enter", ind>>)

ZeroVec == [i \in Idx |-> 0]
NoCalls == [i \in Idx |-> 0]
NoOut == [st |-> "none", x |-> ZeroVec, b |-> ZeroVec]

\* lines 259-261: the storage check
BadStorage(rhss) ==
    /\ fn = "none"
    /\ storage # "csc"
    /\ \E r \in rhss : srhs' = r
    /\ fn' = "lsolve_csc_sparse_rhs"
    /\ res' = "BadStorageType"
    /\ pc' = "done"
    /\ UNCHANGED <<mat, storage, out, dstack, visited, x_workspace, ri, it, calls>>

\* lines 262-266: entry with an empty stack, any workspace content
Begin(rhss, stales) ==
    /\ fn = "none"
    /\ storage = "csc"
    /\ \E r \in rhss : srhs' = r
    /\ \E w \in stales : x_workspace' = [i \in Idx |-> w]
    /\ fn' = "lsolve_csc_sparse_rhs"
    /\ pc' = "roots"
    /\ ri' = 1
    /\ UNCHANGED <<mat, storage, out, dstack, visited, it, res, calls>>

\* lines 280-283: a root already visited is skipped
RootSkip ==
    /\ pc = "roots"
    /\ ri <= Len(srhs)
    /\ visited[srhs[ri][1]]
    /\ ri' = ri + 1
    /\ UNCHANGED <<mat, storage, srhs, fn, out, dstack, visited, x_workspace,
                   pc, it, res, calls>>

\* line 284: a new root is pushed on the pending side
RootPush ==
    /\ pc = "roots"
    /\ ri <= Len(srhs)
    /\ ~visited[srhs[ri][1]]
    /\ dstack' = push_left(dstack, <<"Enter", srhs[ri][1]>>)
    /\ pc' = IF dstack'.overflow THEN "panic" ELSE "dfs"
    /\ res' = IF dstack'.overflow THEN "panic" ELSE res
    /\ UNCHANGED <<mat, storage, srhs, fn, out, visited, x_workspace, ri, it, calls>>

\* lines 285-290: Enter of an index already visited
PopEnterVisited ==
    /\ pc = "dfs"
    /\ dstack.left # <<>>
    /\ LET top == dstack.left[Len(dstack.left)]
       IN  /\ top[1] = "Enter"
           /\ visited[top[2]]
    /\ dstack' = pop_left(dstack)
    /\ UNCHANGED <<mat, storage, srhs, fn, out, visited, x_workspace, pc, ri, it,
                   res, calls>>

\* lines 285-300: Enter of a new index
PopEnterNew ==
    /\ pc = "dfs"
    /\ dstack.left # <<>>
    /\ LET top == dstack.left[Len(dstack.left)]
       IN  /\ top[1] = "Enter"
           /\ ~visited[top[2]]
           /\ visited' = mark(visited, top[2])
           /\ dstack' = enter(mat, top[2], pop_left(dstack))
    /\ pc' = IF dstack'.overflow THEN "panic" ELSE pc
    /\ res' = IF dstack'.overflow THEN "panic" ELSE res
    /\ UNCHANGED <<mat, storage, srhs, fn, out, x_workspace, ri, it, calls>>

\* lines 285, 301-303: Exit moves the index to the finished side
PopExit ==
    /\ pc = "dfs"
    /\ dstack.left # <<>>
    /\ LET top == dstack.left[Len(dstack.left)]
       IN  /\ top[1] = "Exit"
           /\ dstack' = exit(top[2], pop_left(dstack))
    /\ pc' = IF dstack'.overflow THEN "panic" ELSE pc
    /\ res' = IF dstack'.overflow THEN "panic" ELSE res
    /\ UNCHANGED <<mat, storage, srhs, fn, out, visited, x_workspace, ri, it, calls>>

\* line 285: pop_left returns None, the traversal of this root is over
PopEmpty ==
    /\ pc = "dfs"
    /\ dstack.left = <<>>
    /\ pc' = "roots"
    /\ ri' = ri + 1
    /\ UNCHANGED <<mat, storage, srhs, fn, out, dstack, visited, x_workspace, it,
                   res, calls>>

\* lines 306-309: all roots done, the right-hand side is scattered
RootsDone ==
    /\ pc = "roots"
    /\ ri > Len(srhs)
    /\ x_workspace' = scatter(srhs, 1, x_workspace)
    /\ pc' = "numeric"
    /\ it' = 1
    /\ UNCHANGED <<mat, storage, srhs, fn, out, dstack, visited, ri, res, calls>>

\* lines 310-314: one finished index is replayed
NumericStep ==
    /\ pc = "numeric"
    /\ it <= Len(dstack.right)
    /\ LET ind == iter_right(dstack)[it]
           r == lspsolve_csc_process_col(mat[ind + 1], ind, x_workspace)
       IN  /\ x_workspace' = r.x
           /\ calls' = [calls EXCEPT ![ind] = @ + 1]
           /\ IF r.st = "Ok"
              THEN it' = it + 1 /\ UNCHANGED <<pc, res>>
              ELSE pc' = "done" /\ res' = r.st /\ UNCHANGED it
    /\ UNCHANGED <<mat, storage, srhs, fn, out, dstack, visited, ri>>

\* line 316
NumericDone ==
    /\ pc = "numeric"
    /\ it > Len(dstack.right)
    /\ pc' = "done"
    /\ res' = "Ok"
    /\ UNCHANGED <<mat, storage, srhs, fn, out, dstack, visited, x_workspace, ri,
                   it, calls>>

(* ---------------------------- dense calls ------------------------------ *)

\* dense right-hand sides handed to the dense solvers
DenseVals == {0, 3, 4}
DenseVecs == [Idx -> DenseVals]

Returned(f, b, r) ==
    /\ fn' = f
    /\ out' = [st |-> r.st, x |-> r.x, b |-> b]
    /\ pc' = "done"
    /\ UNCHANGED <<mat, storage, srhs, dstack, visited, x_workspace, ri, it, res,
                   calls>>

Call_lsolve_csr_dense_rhs ==
    /\ fn = "none"
    /\ storage = "csr"
    /\ \E b \in DenseVecs :
          Returned("lsolve_csr_dense_rhs", b, lsolve_csr_dense_rhs(mat, storage, b))

Call_lsolve_csc_dense_rhs ==
    /\ fn = "none"
    /\ storage = "csc"
    /\ \E b \in DenseVecs :
          Returned("lsolve_csc_dense_rhs", b, lsolve_csc_dense_rhs(mat, storage, b))

Call_usolve_csc_dense_rhs ==
    /\ fn = "none"
    /\ storage = "csc"
    /\ \E b \in DenseVecs :
          Returned("usolve_csc_dense_rhs", b, usolve_csc_dense_rhs(mat, storage, b))

Call_usolve_csr_dense_rhs ==
    /\ fn = "none"
    /\ storage = "csr"
    /\ \E b \in DenseVecs :
          Returned("usolve_csr_dense_rhs", b, usolve_csr_dense_rhs(mat, storage, b))

\* lines 37-39, 87-89, 149-151, 198-200: a dense solver handed the other
\* storage orientation
StorageMismatch ==
    /\ fn = "none"
    /\ \E f \in {"lsolve_csr_dense_rhs", "lsolve_csc_dense_rhs",
                 "usolve_csc_dense_rhs", "usolve_csr_dense_rhs"} :
          LET r == IF f = "lsolve_csr_dense_rhs"
                       THEN lsolve_csr_dense_rhs(mat, storage, ZeroVec)
                   ELSE IF f = "lsolve_csc_dense_rhs"
                       THEN lsolve_csc_dense_rhs(mat, storage, ZeroVec)
                   ELSE IF f = "usolve_csc_dense_rhs"
                       THEN usolve_csc_dense_rhs(mat, storage, ZeroVec)
                   ELSE usolve_csr_dense_rhs(mat, storage, ZeroVec)
          IN  /\ r.st = "panic"
              /\ Returned(f, ZeroVec, r)

(* ------------------------------ inputs --------------------------------- *)

\* the orders in which the entries of S can be stored
Perms(S) ==
    {s \in [1 .. Cardinality(S) -> S] :
        \A a, b \in 1 .. Cardinality(S) : a # b => s[a] # s[b]}

Orders(S, allOrders) == IF allOrders THEN Perms(S) ELSE {SortedSeq(S)}

\* off-diagonal cells <<inner, outer>>
OffCells == {c \in Idx \X Idx : c[1] # c[2]}
LowerCscCells == {c \in Idx \X Idx : c[1] > c[2]}

\* a diagonal entry is missing (<<>>) or stored with a value (<<v>>)
DiagChoices(vals) == {<<>>} \cup {<<v>> : v \in vals}

OuterSet(o, cells, dg, ov) ==
    {<<c[1], ov[c]>> : c \in {c \in cells : c[2] = o}}
        \cup (IF dg[o] = <<>> THEN {} ELSE {<<o, dg[o][1]>>})

RECURSIVE MatsFrom(_, _, _, _, _)
MatsFrom(o, cells, dg, ov, allOrders) ==
    IF o = N THEN {<<>>}
    ELSE UNION {{<<h>> \o t : t \in MatsFrom(o + 1, cells, dg, ov, allOrders)} :
                  h \in Orders(OuterSet(o, cells, dg, ov), allOrders)}

\* the compressed matrices with at most lim off-diagonal entries among
\* `allowed` and at most sing missing or zero pivots
Mats(allowed, lim, diagChoices, sing, offVals, allOrders) ==
    UNION {UNION {UNION {MatsFrom(0, cells, dg, ov, allOrders) :
                            ov \in [cells -> offVals]} :
                     dg \in {g \in [Idx -> diagChoices] :
                               Cardinality({k \in Idx : g[k] \in {<<>>, <<0>>}})
                                   <= sing}} :
             cells \in {c \in SUBSET allowed : Cardinality(c) <= lim}}

\* the sparse vectors with at most MaxRhs entries
IndexSeqs(allOrders) ==
    {s \in UNION {[1 .. k -> Idx] : k \in 0 .. MaxRhs} :
        \A a, b \in DOMAIN s :
            a < b => IF allOrders THEN s[a] # s[b] ELSE s[a] < s[b]}

SparseVecs(vals, allOrders) ==
    UNION {{[k \in DOMAIN s |-> <<s[k], v[k]>>] : v \in [DOMAIN s -> vals]} :
             s \in IndexSeqs(allOrders)}

(* --------------------------- specifications ---------------------------- *)

Idle ==
    /\ srhs = <<>>
    /\ fn = "none"
    /\ out = NoOut
    /\ dstack = EmptyStack
    /\ visited = [i \in Idx |-> FALSE]
    /\ x_workspace = ZeroVec
    /\ pc = "idle"
    /\ ri = 1
    /\ it = 1
    /\ res = "none"
    /\ calls = NoCalls

\* any square matrix, entries stored in ascending order, either orientation
Init ==
    /\ mat \in Mats(OffCells, MaxOff, DiagChoices(DiagVals), MaxSingular, OffVals, FALSE)
    /\ storage \in {"csr", "csc"}
    /\ Idle

Traverse ==
    \/ RootSkip
    \/ RootPush
    \/ PopEnterVisited
    \/ PopEnterNew
    \/ PopExit
    \/ PopEmpty
    \/ RootsDone

Replay ==
    \/ NumericStep
    \/ NumericDone

Next ==
    \/ Call_lsolve_csr_dense_rhs
    \/ Call_lsolve_csc_dense_rhs
    \/ Call_usolve_csc_dense_rhs
    \/ Call_usolve_csr_dense_rhs
    \/ StorageMismatch
    \/ BadStorage(SparseVecs(RhsVals, FALSE))
    \/ Begin(SparseVecs(RhsVals, FALSE), StaleVals)
    \/ Traverse
    \/ Replay

Spec == Init /\ [][Next]_vars

\* column-major lower triangular matrices, the entries of a column stored in
\* any order, the diagonal entry stored or missing
InitLower ==
    /\ mat \in Mats(LowerCscCells, MaxLower, DiagChoices({1}), N, {1}, TRUE)
    /\ storage = "csc"
    /\ Idle

\* column-major matrices of any shape (cycles included) with a full diagonal,
\* any entry order
InitAny ==
    /\ mat \in Mats(OffCells, MaxOff, {<<1>>}, N, {1}, TRUE)
    /\ storage = "csc"
    /\ Idle

NextSparse ==
    \/ Begin(SparseVecs({1}, TRUE), {7})
    \/ Traverse
    \/ Replay

SpecLower == InitLower /\ [][NextSparse]_vars

\* the right-hand side in ascending index order
NextAny ==
    \/ Begin(SparseVecs({1}, FALSE), {7})
    \/ Traverse
    \/ Replay

SpecAny == InitAny /\ [][NextAny]_vars

\* the solve is one sequential call: it keeps running until it returns
FairSpecAny == SpecAny /\ WF_vars(NextAny)

(* ------------------------ vocabulary of the claims --------------------- *)

LowerSolvers == {"lsolve_csr_dense_rhs", "lsolve_csc_dense_rhs"}
UpperSolvers == {"usolve_csc_dense_rhs", "usolve_csr_dense_rhs"}
DenseSolvers == LowerSolvers \cup UpperSolvers

\* a dense solver has returned (it was handed the storage it expects)
DenseReturned == fn \in DenseSolvers /\ out.st # "panic"

\* the sparse solve is over: it returned, or an assertion of the stack failed
SparseOver == fn = "lsolve_csc_sparse_rhs" /\ pc \in {"done", "panic"}

\* the entry at row i, column j of the logical matrix
Entry(m, st, i, j) == IF st = "csc" THEN At(m, j, i) ELSE At(m, i, j)

Stored(m, st, i, j) ==
    IF st = "csc" THEN get(m[j + 1], i) # {} ELSE get(m[i + 1], j) # {}

IsLower(m, st) == \A i, j \in Idx : Stored(m, st, i, j) => i >= j
IsUpper(m, st) == \A i, j \in Idx : Stored(m, st, i, j) => i <= j

SingularPivot(m, k) == get(m[k + 1], k) = {} \/ unwrap(get(m[k + 1], k)) = 0
NonzeroDiag(m) == \A k \in Idx : ~SingularPivot(m, k)

RECURSIVE RowTimes(_, _, _, _, _)
RowTimes(m, st, i, j, x) ==
    IF j = N THEN 0 ELSE Entry(m, st, i, j) * x[j] + RowTimes(m, st, i, j + 1, x)

\* the product of the logical matrix and the vector x
MatVec(m, st, x) == [i \in Idx |-> RowTimes(m, st, i, 0, x)]

\* the matrix without its entries strictly above (lower = TRUE) or strictly
\* below (lower = FALSE) the diagonal
RECURSIVE KeepSide(_, _, _)
KeepSide(vec, o, keepGreater) ==
    IF vec = <<>> THEN <<>>
    ELSE LET e == Head(vec)
             keep == IF keepGreater THEN e[1] >= o ELSE e[1] <= o
         IN  (IF keep THEN <<e>> ELSE <<>>) \o KeepSide(Tail(vec), o, keepGreater)

Triangle(m, st, lower) ==
    [k \in 1 .. N |-> KeepSide(m[k], k - 1, (st = "csc") = lower)]

Solve(f, m, st, b) ==
    IF f = "lsolve_csr_dense_rhs" THEN lsolve_csr_dense_rhs(m, st, b)
    ELSE IF f = "lsolve_csc_dense_rhs" THEN lsolve_csc_dense_rhs(m, st, b)
    ELSE IF f = "usolve_csc_dense_rhs" THEN usolve_csc_dense_rhs(m, st, b)
    ELSE usolve_csr_dense_rhs(m, st, b)

Other(st) == IF st = "csc" THEN "csr" ELSE "csc"

Sibling(f) ==
    IF f = "lsolve_csr_dense_rhs" THEN "lsolve_csc_dense_rhs"
    ELSE IF f = "lsolve_csc_dense_rhs" THEN "lsolve_csr_dense_rhs"
    ELSE IF f = "usolve_csc_dense_rhs" THEN "usolve_csr_dense_rhs"
    ELSE "usolve_csc_dense_rhs"

\* the triangular system the dense solver fn was written for
Triangular == IF fn \in LowerSolvers THEN IsLower(mat, storage)
              ELSE IsUpper(mat, storage)

(* ------------------------------- C5 ------------------------------------ *)

\* C5 as stated: on a triangular matrix with nonzero diagonal every dense
\* solver returns Ok with a vector x such that T * x = b exactly.
C5_Original ==
    (DenseReturned /\ Triangular /\ NonzeroDiag(mat))
        => /\ out.st = "Ok"
           /\ MatVec(mat, storage, out.x) = out.b

\* C5 amended: every dense solver returns Ok, and T * x differs from b in
\* row i by exactly the remainder r of the truncating division by the pivot
\* d of that row (|r| < |d|, r carrying the sign of the dividend r + d * x);
\* so T * x = b exactly whenever every pivot division is exact.
C5_Remainder ==
    (DenseReturned /\ Triangular /\ NonzeroDiag(mat))
        => /\ out.st = "Ok"
           /\ LET tx == MatVec(mat, storage, out.x)
              IN  \A i \in Idx :
                    LET r == out.b[i] - tx[i]
                        d == Entry(mat, storage, i, i)
                    IN  /\ Abs(r) < Abs(d)
                        /\ r * (r + d * out.x[i]) >= 0

\* a solve of a system with a dependency between two unknowns, all pivot
\* divisions exact, and a nonzero solution
C5_Witness ==
    /\ DenseReturned /\ Triangular /\ NonzeroDiag(mat)
    /\ out.st = "Ok"
    /\ MatVec(mat, storage, out.x) = out.b
    /\ \E i, j \in Idx : i # j /\ Stored(mat, storage, i, j) /\ out.x[j] # 0
                           /\ out.x[i] # 0

(* ------------------------------- C6 ------------------------------------ *)

\* C6: a dense solver and its sibling for the other storage orientation,
\* run on the same logical system and right-hand side, return the same outcome
\* and, on Ok, the same solution.
C6_Orientation ==
    DenseReturned =>
        LET r == Solve(Sibling(fn), to_other(mat), Other(storage), out.b)
        IN  /\ r.st = out.st
            /\ out.st = "Ok" => r.x = out.x

\* a returned solve of a system whose solution has a dependent component
C6_Witness ==
    /\ DenseReturned /\ Triangular
    /\ out.st = "Ok"
    /\ \E i, j \in Idx : i # j /\ Stored(mat, storage, i, j) /\ out.x[j] # 0
                           /\ out.x[i] # out.b[i]

(* ------------------------------- C7 ------------------------------------ *)

Finished == iter_right(dstack)
FinishedSet == {Finished[k] : k \in DOMAIN Finished}

Roots == {srhs[k][1] : k \in DOMAIN srhs}

\* column j stores an entry at row i below the diagonal: x_i depends on x_j
Edge(m, j, i) == i > j /\ get(m[j + 1], i) # {}

RECURSIVE Closure(_, _)
Closure(m, S) ==
    LET T == S \cup {i \in Idx : \E j \in S : Edge(m, j, i)}
    IN  IF T = S THEN S ELSE Closure(m, T)

\* the indices reachable from the right-hand side through the dependency graph
Reach == Closure(mat, Roots)

SparseReturned == fn = "lsolve_csc_sparse_rhs" /\ storage = "csc" /\ pc = "done"

(* ------------------------------- C1 ------------------------------------ *)

\* the workspace read at the finished indices, zero elsewhere
Solution == [i \in Idx |-> IF i \in FinishedSet THEN x_workspace[i] ELSE 0]

\* C1: when the sparse solve returns Ok on a lower triangular matrix with
\* nonzero diagonal, the workspace read at the finished indices (and zero
\* elsewhere) is the solution of L * x = b: L * x differs from b in row i by
\* exactly the remainder of the truncating division by the pivot, hence
\* L * x = b when the divisions are exact, whatever the workspace held on
\* entry.
C1_SolvedAtFinished ==
    (SparseReturned /\ res = "Ok" /\ IsLower(mat, "csc") /\ NonzeroDiag(mat))
        => LET b == scatter(srhs, 1, ZeroVec)
               lx == MatVec(mat, "csc", Solution)
           IN  \A i \in Idx :
                 LET r == b[i] - lx[i]
                     d == Entry(mat, "csc", i, i)
                 IN  /\ Abs(r) < Abs(d)
                     /\ r * (r + d * Solution[i]) >= 0

(* ------------------------------- C4 ------------------------------------ *)

HasSingularPivot == \E k \in Idx : SingularPivot(mat, k)

\* C4 as stated: on a matrix with a missing or zero pivot every solver handed
\* the storage it expects returns Err(SingularMatrix) and never panics.
C4_Original ==
    /\ (DenseReturned /\ HasSingularPivot) => out.st = "SingularMatrix"
    /\ (SparseOver /\ storage = "csc" /\ HasSingularPivot)
          => res = "SingularMatrix"

\* C4 amended: the four dense solvers return Err(SingularMatrix) on every
\* such matrix; the sparse solve, when it returns, returns
\* Err(SingularMatrix) exactly when a missing or zero pivot is among the
\* indices of the finished side, and Ok otherwise.
C4_SingularWhereReplayed ==
    /\ (DenseReturned /\ HasSingularPivot) => out.st = "SingularMatrix"
    /\ SparseReturned =>
          /\ res \in {"Ok", "SingularMatrix"}
          /\ res = "SingularMatrix"
                <=> \E i \in FinishedSet : SingularPivot(mat, i)

\* the sparse solve has eliminated a column and then met a singular pivot
\* that the eliminated column leads to
C4_Witness ==
    /\ SparseReturned /\ res = "SingularMatrix"
    /\ \E i, k \in FinishedSet :
          /\ calls[i] = 1 /\ ~SingularPivot(mat, i)
          /\ calls[k] = 1 /\ SingularPivot(mat, k)
          /\ Edge(mat, i, k)

(* ------------------------------- C2 ------------------------------------ *)

\* C2: in the sequence the numeric phase replays, an index comes after every
\* index of the sequence it depends on.
C2_EliminationOrder ==
    (fn = "lsolve_csc_sparse_rhs" /\ pc \in {"numeric", "done"})
        => \A p, q \in DOMAIN Finished :
              Edge(mat, Finished[p], Finished[q]) => p < q

\* a replayed sequence that holds a dependency and is not in ascending
\* index order
C2_Witness ==
    /\ fn = "lsolve_csc_sparse_rhs" /\ pc = "done"
    /\ \E p, q \in DOMAIN Finished : Edge(mat, Finished[p], Finished[q])
    /\ \E p, q \in DOMAIN Finished : p < q /\ Finished[p] > Finished[q]

(* ------------------------------- C3 ------------------------------------ *)

\* C3: when the sparse solve returns Ok, the finished side holds exactly the
\* indices reachable from the stored indices of the right-hand side.
C3_ReachExact ==
    (SparseReturned /\ res = "Ok") => FinishedSet = Reach

\* a returned solve whose pattern has fill-in and leaves an index out
C3_Witness ==
    /\ SparseReturned /\ res = "Ok"
    /\ Reach # Roots
    /\ Reach # Idx

(* ------------------------------- C8 ------------------------------------ *)

\* C8: the pending and the finished side together never hold more than 2n
\* entries, so no push goes beyond the capacity.
C8_CapacitySuffices ==
    /\ ~dstack.overflow
    /\ Len(dstack.left) + Len(dstack.right) <= 2 * N

(* ------------------------------- C9 ------------------------------------ *)

NoDuplicate(seq) == \A p, q \in DOMAIN seq : p # q => seq[p] # seq[q]

\* C9: the finished side never holds an index twice, no column is eliminated
\* twice, and a visited flag never goes back to false.
C9_AtMostOnce ==
    /\ [](NoDuplicate(Finished) /\ \A i \in Idx : calls[i] <= 1)
    /\ [][\A i \in Idx : visited[i] => visited'[i]]_vars

\* an index with two parents, itself a root after one of its parents, has
\* been eliminated
C9_Witness ==
    /\ fn = "lsolve_csc_sparse_rhs" /\ pc = "done"
    /\ \E i \in Idx :
          /\ calls[i] = 1
          /\ i \in Roots
          /\ Cardinality({j \in FinishedSet : Edge(mat, j, i)}) >= 2

(* ------------------------------- C10 ----------------------------------- *)

Visited == {i \in Idx : visited[i]}

TraversalOver == fn = "lsolve_csc_sparse_rhs" /\ pc \in {"numeric", "done"}

\* C10: unless a push exceeds the capacity, the traversal ends, and it ends
\* with the pending side empty and the finished side holding exactly the
\* visited indices.
C10_TraversalEnds ==
    /\ <>(pc = "panic" \/ TraversalOver)
    /\ [](TraversalOver => dstack.left = <<>> /\ FinishedSet = Visited)

\* the traversal of a matrix with a cycle between two columns has ended
C10_Witness ==
    /\ TraversalOver
    /\ \E i, j \in Visited : i # j /\ get(mat[i + 1], j) # {}
                                   /\ get(mat[j + 1], i) # {}

====
